---- MODULE Spec2Model ----
(***************************************************************************)
(* Model of src/app.py: the two FastAPI handlers upload_url (POST          *)
(* /upload-url) and generate_story (GET /generate), the module-level       *)
(* configuration they read, and the two downstream services they call      *)
(* (S3 presigned URLs, the Anthropic messages API).                        *)
(*                                                                         *)
(* A handler runs in the framework's thread pool and blocks only at a      *)
(* downstream call, so each request advances in steps that end at such a   *)
(* call or at the response.  Requests are the elements of DOMAIN pc; the   *)
(* downstream services are the environment, whose possible answers are     *)
(* the fields of an environment record E.                                  *)
(*                                                                         *)
(* Encodings.  An optional value (None / missing field) is <<>>, a present *)
(* value v is <<v>>.  A temperature is an integer number of tenths          *)
(* (0.8 is 8), which keeps the comparisons of ge=0.0, le=1.0 exact.        *)
(***************************************************************************)
EXTENDS Integers, Sequences, FiniteSets, TLC

VARIABLES BUCKET, MODEL, MAX_TOKENS, pc, request, key, calls, response

config == <<BUCKET, MODEL, MAX_TOKENS>>
vars == <<BUCKET, MODEL, MAX_TOKENS, pc, request, key, calls, response>>

None == <<>>
Some(v) == <<v>>
Val(o) == o[1]
Opt(S) == {None} \cup {Some(v) : v \in S}

(* ------------------------------ bounds -------------------------------- *)
\* Requests in flight together in SpecPar and FairSpec.
MaxReqs == 2
\* Longest content list a generation-service message carries in Spec.
MaxParts == 2

(* ------------------------- program constants -------------------------- *)
DefaultModel == "claude-3-5-sonnet-20241022"
DefaultMaxTokens == 1200
DefaultStyle == "literary, lyrical, warm, cohesive"
DefaultLengthHint == "700-900 words"
DefaultAudience == "general"
DefaultTemperature == 8
TemperatureGe == 0
TemperatureLe == 10
GetExpiresIn == 300
PutExpiresIn == 10 * 60

\* Statuses of the framework and of HTTPException(500, ...).
StatusOk == 200
StatusFault == 500
StatusValidation == 422
StatusUnhandled == 500
UnhandledBody == "Internal Server Error"
BucketNotConfigured == "S3_BUCKET not configured"
NotIterable == "'NoneType' object is not iterable"

system_prompt ==
    "You are an award-winning author with an eye for evocative detail. "
    \o "Write a cohesive short story inspired by the image. Favor scene, character, "
    \o "and subtle emotional arc over object listing. Show, don't tell."

(* --------------------------- pure fragments --------------------------- *)
\* Mutant of BucketMissing: `if BUCKET is None`.
BucketIsNone == BUCKET = None

\* `not BUCKET`: None and the empty string are both falsy.
BucketMissing == BUCKET = None \/ BUCKET = Some("")

\* Mutant of UploadKey: the prefix is dropped.
UploadKeyBare(filename) == filename

\* key = f"uploads/{req.filename}"
UploadKey(filename) == "uploads/" \o filename

\* UploadReq(BaseModel): both fields required, each a str.
UploadReqValid(body) == body.filename # None /\ body.content_type # None

\* Mutant of TemperatureValid: le=1.0 is missing.
TemperatureAtLeast(t) == TemperatureGe <= t

\* temperature: float = Query(0.8, ge=0.0, le=1.0)
TemperatureValid(t) == TemperatureGe <= t /\ t <= TemperatureLe

\* The value a Query parameter takes: the given one, or its default.
QueryValue(o, default) == IF o = None THEN default ELSE Val(o)

\* generate_story's parameters: key is required (Query(...)), the rest default.
QueryValid(q) ==
    /\ q.key # None
    /\ TemperatureValid(QueryValue(q.temperature, DefaultTemperature))

user_text(length_hint, audience, style) ==
    "Write a " \o length_hint \o " story inspired by this image for a(n) "
    \o audience \o " audience.\n"
    \o "Tone/style: " \o style
    \o ". Avoid bullet points or captions. Keep the narrative unified."

\* Mutant of JoinText: the type filter is missing.
RECURSIVE JoinAll(_)
JoinAll(content) ==
    IF content = <<>> THEN "" ELSE Head(content).text \o JoinAll(Tail(content))

\* "".join(part.text for part in resp.content if getattr(part, "type", "") == "text")
RECURSIVE JoinText(_)
JoinText(content) ==
    IF content = <<>> THEN ""
    ELSE (IF Head(content).type = "text" THEN Head(content).text ELSE "")
         \o JoinText(Tail(content))

\* Mutant of AnthropicErrorDetail: the error's text is left out.
AnthropicErrorGeneric(e) == "Anthropic error"

\* HTTPException(500, f"Anthropic error: {e}")
AnthropicErrorDetail(e) == "Anthropic error: " \o e

(* ------------------------------ responses ----------------------------- *)
\* Mutant of HttpException: the handler's faults are raised as 503.
HttpException503(status, detail) == Some([status |-> 503, body |-> [detail |-> detail]])

HttpException(status, detail) == Some([status |-> status, body |-> [detail |-> detail]])
ValidationError == Some([status |-> StatusValidation, body |-> [detail |-> "validation error"]])
\* Mutant of UnhandledError: the storage call sits in a try like the generation call.
CaughtStorageError(e) == Some([status |-> 500, body |-> [detail |-> "S3 error: " \o e]])

\* An exception that leaves the handler: the framework's plain 500.
UnhandledError(e) == Some([status |-> StatusUnhandled, body |-> [text |-> UnhandledBody]])
UploadResult(put_url, k) == Some([status |-> StatusOk, body |-> [put_url |-> put_url, key |-> k]])
StoryResult(story) == Some([status |-> StatusOk, body |-> [story |-> story]])

(* --------------------------- downstream calls ------------------------- *)
Pending == [kind |-> "pending"]
Returned(v) == [kind |-> "return", value |-> v]
Raised(e) == [kind |-> "raise", error |-> e]

PutObjectCall(bucket, k, content_type) ==
    [svc |-> "s3", op |-> "put_object",
     params |-> [Bucket |-> bucket, Key |-> k, ContentType |-> content_type],
     ExpiresIn |-> PutExpiresIn, outcome |-> Pending]

\* Mutant of GetObjectCall: the key is prefixed as an upload's is.
GetObjectCallPrefixed(bucket, k) ==
    [svc |-> "s3", op |-> "get_object",
     params |-> [Bucket |-> bucket, Key |-> "uploads/" \o k],
     ExpiresIn |-> 300, outcome |-> [kind |-> "pending"]]

GetObjectCall(bucket, k) ==
    [svc |-> "s3", op |-> "get_object",
     params |-> [Bucket |-> bucket, Key |-> k],
     ExpiresIn |-> GetExpiresIn, outcome |-> Pending]

MessagesCreateCall(q, get_url) ==
    [svc |-> "anthropic", model |-> MODEL, max_tokens |-> MAX_TOKENS,
     temperature |-> QueryValue(q.temperature, DefaultTemperature),
     system |-> system_prompt,
     text |-> user_text(QueryValue(q.length_hint, DefaultLengthHint),
                        QueryValue(q.audience, DefaultAudience),
                        QueryValue(q.style, DefaultStyle)),
     image_url |-> get_url, outcome |-> Pending]

Settle(cs, outcome) == [cs EXCEPT ![Len(cs)].outcome = outcome]

(* ------------------------------- actions ------------------------------ *)
\* POST /upload-url up to the presigned-URL call.
PostUploadUrl(r, E) ==
    /\ pc[r] = "idle"
    /\ \E body \in E.uploads :
        /\ request' = [request EXCEPT ![r] = [endpoint |-> "upload_url", input |-> body]]
        /\ IF ~UploadReqValid(body)
           THEN /\ response' = [response EXCEPT ![r] = ValidationError]
                /\ pc' = [pc EXCEPT ![r] = "done"]
                /\ UNCHANGED <<key, calls>>
           ELSE IF BucketMissing
           THEN /\ response' = [response EXCEPT ![r] =
                                   HttpException(StatusFault, BucketNotConfigured)]
                /\ pc' = [pc EXCEPT ![r] = "done"]
                /\ UNCHANGED <<key, calls>>
           ELSE /\ key' = [key EXCEPT ![r] = UploadKey(Val(body.filename))]
                /\ calls' = [calls EXCEPT ![r] =
                                Append(@, PutObjectCall(Val(BUCKET), key'[r],
                                                        Val(body.content_type)))]
                /\ pc' = [pc EXCEPT ![r] = "s3"]
                /\ UNCHANGED response
    /\ UNCHANGED config

\* GET /generate up to the presigned-URL call.
GetGenerate(r, E) ==
    /\ pc[r] = "idle"
    /\ \E q \in E.queries :
        /\ request' = [request EXCEPT ![r] = [endpoint |-> "generate", input |-> q]]
        /\ IF ~QueryValid(q)
           THEN /\ response' = [response EXCEPT ![r] = ValidationError]
                /\ pc' = [pc EXCEPT ![r] = "done"]
                /\ UNCHANGED <<key, calls>>
           ELSE IF BucketMissing
           THEN /\ response' = [response EXCEPT ![r] =
                                   HttpException(StatusFault, BucketNotConfigured)]
                /\ pc' = [pc EXCEPT ![r] = "done"]
                /\ UNCHANGED <<key, calls>>
           ELSE /\ key' = [key EXCEPT ![r] = Val(q.key)]
                /\ calls' = [calls EXCEPT ![r] =
                                Append(@, GetObjectCall(Val(BUCKET), key'[r]))]
                /\ pc' = [pc EXCEPT ![r] = "s3"]
                /\ UNCHANGED response
    /\ UNCHANGED config

\* Mutant of S3Return: key and get_url are module globals, so a handler may read
\* the value another request left there.
S3ReturnShared(r, E) ==
    /\ pc[r] = "s3"
    /\ \E url \in E.urls, o \in DOMAIN pc :
        /\ pc[o] # "idle"
        /\ IF request[r].endpoint = "upload_url"
           THEN /\ calls' = [calls EXCEPT ![r] = Settle(@, Returned(url))]
                /\ response' = [response EXCEPT ![r] = UploadResult(url, key[o])]
                /\ pc' = [pc EXCEPT ![r] = "done"]
           ELSE /\ calls' = [calls EXCEPT ![r] =
                                Append(Settle(@, Returned(url)),
                                       MessagesCreateCall(request[r].input, url))]
                /\ pc' = [pc EXCEPT ![r] = "gen"]
                /\ UNCHANGED response
    /\ UNCHANGED <<config, request, key>>

\* s3.generate_presigned_url returns: upload_url answers, generate_story
\* builds the prompts and calls anthropic.messages.create.
S3Return(r, E) ==
    /\ pc[r] = "s3"
    /\ \E url \in E.urls :
        IF request[r].endpoint = "upload_url"
        THEN /\ calls' = [calls EXCEPT ![r] = Settle(@, Returned(url))]
             /\ response' = [response EXCEPT ![r] = UploadResult(url, key[r])]
             /\ pc' = [pc EXCEPT ![r] = "done"]
        ELSE /\ calls' = [calls EXCEPT ![r] =
                             Append(Settle(@, Returned(url)),
                                    MessagesCreateCall(request[r].input, url))]
             /\ pc' = [pc EXCEPT ![r] = "gen"]
             /\ UNCHANGED response
    /\ UNCHANGED <<config, request, key>>

\* s3.generate_presigned_url raises: neither handler has a try around it.
S3Raise(r, E) ==
    /\ pc[r] = "s3"
    /\ \E e \in E.s3Errors :
        /\ calls' = [calls EXCEPT ![r] = Settle(@, Raised(e))]
        /\ response' = [response EXCEPT ![r] = UnhandledError(e)]
    /\ pc' = [pc EXCEPT ![r] = "done"]
    /\ UNCHANGED <<config, request, key>>

\* anthropic.messages.create returns a message; content None makes the join raise
\* inside the try.
GenReturn(r, E) ==
    /\ pc[r] = "gen"
    /\ \E msg \in E.messages :
        /\ calls' = [calls EXCEPT ![r] = Settle(@, Returned(msg))]
        /\ response' = [response EXCEPT ![r] =
                           IF msg.content = None
                           THEN HttpException(StatusFault,
                                              AnthropicErrorDetail(NotIterable))
                           ELSE StoryResult(JoinText(Val(msg.content)))]
    /\ pc' = [pc EXCEPT ![r] = "done"]
    /\ UNCHANGED <<config, request, key>>

\* Mutant of GenRaise: a failed generation call is tried again.
GenRaiseRetry(r, E) ==
    /\ pc[r] = "gen"
    /\ Len(calls[r]) < 4
    /\ \E e \in E.genErrors :
        calls' = [calls EXCEPT ![r] =
                     Append(Settle(@, Raised(e)),
                            MessagesCreateCall(request[r].input, calls[r][1].outcome.value))]
    /\ UNCHANGED <<config, pc, request, key, response>>

\* anthropic.messages.create raises: except Exception as e.
GenRaise(r, E) ==
    /\ pc[r] = "gen"
    /\ \E e \in E.genErrors :
        /\ calls' = [calls EXCEPT ![r] = Settle(@, Raised(e))]
        /\ response' = [response EXCEPT ![r] =
                           HttpException(StatusFault, AnthropicErrorDetail(e))]
    /\ pc' = [pc EXCEPT ![r] = "done"]
    /\ UNCHANGED <<config, request, key>>

Downstream(r, E) == S3Return(r, E) \/ S3Raise(r, E) \/ GenReturn(r, E) \/ GenRaise(r, E)

(* ----------------------------- environments --------------------------- *)
RECURSIVE SeqsUpTo(_, _)
SeqsUpTo(S, n) ==
    IF n = 0 THEN {<<>>}
    ELSE LET shorter == SeqsUpTo(S, n - 1)
         IN shorter \cup {Append(s, x) : s \in shorter, x \in S}

Parts == [type : {"text", "tool_use", ""}, text : {"Once upon", " a time."}]

\* One request at a time, every kind of input and answer.
EnvOne ==
    [buckets |-> {None, Some(""), Some("story-bucket")},
     models |-> {DefaultModel},
     maxTokens |-> {DefaultMaxTokens, 256},
     uploads |-> [filename : Opt({"a.png", "../b.jpg", ""}),
                  content_type : Opt({"image/png", "image/jpeg"})],
     queries |-> [key : Opt({"uploads/a.png", "elsewhere/c.gif"}),
                  style : Opt({"noir"}),
                  length_hint : {None},
                  audience : Opt({"children"}),
                  temperature : Opt({-1, 0, 10, 11})],
     urls |-> {"https://s3/one?sig=1", "https://s3/two?sig=2"},
     s3Errors |-> {"Unable to locate credentials"},
     messages |-> [content : Opt(SeqsUpTo(Parts, MaxParts))],
     genErrors |-> {"Connection error.", "rate_limit_error"}]

\* Requests served together, a few inputs and answers each.
EnvPar ==
    [buckets |-> {None, Some("story-bucket")},
     models |-> {DefaultModel},
     maxTokens |-> {DefaultMaxTokens},
     uploads |-> [filename : Opt({"a.png"}), content_type : {Some("image/png")}],
     queries |-> [key : {Some("uploads/a.png"), Some("elsewhere/c.gif")},
                  style : {None},
                  length_hint : {None},
                  audience : {None},
                  temperature : {None, Some(11)}],
     urls |-> {"https://s3/one?sig=1", "https://s3/two?sig=2"},
     s3Errors |-> {"Unable to locate credentials"},
     messages |-> [content : {None, Some(<<[type |-> "text", text |-> "Once upon"]>>)}],
     genErrors |-> {"Connection error."}]

\* The request of Spec, the requests of SpecPar.
Reqs == {1}
ReqsPar == 1..MaxReqs

(* ---------------------------- specifications -------------------------- *)
\* Module import: BUCKET, MODEL and MAX_TOKENS are read from the environment once.
InitOf(R, E) ==
    /\ BUCKET \in E.buckets
    /\ MODEL \in E.models
    /\ MAX_TOKENS \in E.maxTokens
    /\ pc = [r \in R |-> "idle"]
    /\ request = [r \in R |-> None]
    /\ key = [r \in R |-> ""]
    /\ calls = [r \in R |-> <<>>]
    /\ response = [r \in R |-> None]

Init == InitOf(Reqs, EnvOne)
Next ==
    \E r \in Reqs :
        \/ PostUploadUrl(r, EnvOne)
        \/ GetGenerate(r, EnvOne)
        \/ S3Return(r, EnvOne)
        \/ S3Raise(r, EnvOne)
        \/ GenReturn(r, EnvOne)
        \/ GenRaise(r, EnvOne)
Spec == Init /\ [][Next]_vars

InitPar == InitOf(ReqsPar, EnvPar)
NextPar ==
    \E r \in ReqsPar :
        \/ PostUploadUrl(r, EnvPar)
        \/ GetGenerate(r, EnvPar)
        \/ S3Return(r, EnvPar)
        \/ S3Raise(r, EnvPar)
        \/ GenReturn(r, EnvPar)
        \/ GenRaise(r, EnvPar)
SpecPar == InitPar /\ [][NextPar]_vars

\* Each downstream call returns or raises.
FairSpec == SpecPar /\ \A r \in ReqsPar : WF_vars(Downstream(r, EnvPar))

(* ------------------------- vocabulary of the claims ------------------- *)
Started(r) == pc[r] # "idle"
Finished(r) == pc[r] = "done"
IsUpload(r) == Started(r) /\ request[r].endpoint = "upload_url"
IsGenerate(r) == Started(r) /\ request[r].endpoint = "generate"
Input(r) == request[r].input
Status(r) == Val(response[r]).status
Body(r) == Val(response[r]).body
HasStory(r) == response[r] # None /\ "story" \in DOMAIN Body(r)

\* A bucket name is configured: S3_BUCKET is set and not empty.
BucketConfigured == BUCKET # None /\ BUCKET # Some("")

\* The request carries its required fields and, when it gives a temperature,
\* one within [0.0, 1.0].
WellFormed(r) ==
    IF request[r].endpoint = "upload_url"
    THEN Input(r).filename # None /\ Input(r).content_type # None
    ELSE /\ Input(r).key # None
         /\ Input(r).temperature # None => Val(Input(r).temperature) \in 0..10

\* t occurs in s.
Contains(s, t) == \E i \in 1..(Len(s) - Len(t) + 1) : SubSeq(s, i, i + Len(t) - 1) = t

\* The calls request r made to one service.
CallsTo(r, svc) == {i \in 1..Len(calls[r]) : calls[r][i].svc = svc}

IsText(part) == part.type = "text"
RECURSIVE Concat(_)
Concat(texts) == IF texts = <<>> THEN "" ELSE Head(texts) \o Concat(Tail(texts))
TextsOf(content) == [i \in 1..Len(content) |-> content[i].text]

(* -------------------------------- claims ------------------------------ *)
\* C1: a well-formed POST /upload-url handled with a bucket configured asks the
\* storage service for one presigned put_object URL, for the key "uploads/" +
\* filename, the request's content type and 600 seconds, and answers with that key.
C1_UploadKeyAndPresign ==
    \A r \in DOMAIN pc :
        (IsUpload(r) /\ WellFormed(r) /\ BucketConfigured) =>
            /\ Len(calls[r]) = 1
            /\ calls[r][1].svc = "s3"
            /\ calls[r][1].op = "put_object"
            /\ calls[r][1].params =
                   [Bucket |-> Val(BUCKET),
                    Key |-> "uploads/" \o Val(Input(r).filename),
                    ContentType |-> Val(Input(r).content_type)]
            /\ calls[r][1].ExpiresIn = 600
            /\ (Finished(r) /\ Status(r) = 200) =>
                   /\ Body(r).key = "uploads/" \o Val(Input(r).filename)
                   /\ Body(r).put_url = calls[r][1].outcome.value

C1_Witness ==
    \E r \in DOMAIN pc :
        /\ IsUpload(r) /\ Finished(r) /\ Status(r) = 200
        /\ Input(r).filename = Some("../b.jpg")
        /\ Input(r).content_type = Some("image/jpeg")
        /\ Body(r).key = "uploads/../b.jpg"

\* C2 as stated: with no bucket configured every request to either endpoint ends
\* in HTTP 500 and makes no downstream call, whatever its input.
C2_AsStated ==
    \A r \in DOMAIN pc :
        (Started(r) /\ ~BucketConfigured) =>
            Finished(r) /\ Status(r) = 500 /\ calls[r] = <<>>

\* C2, amended: with no bucket configured a request makes no downstream call and
\* ends at once; it ends in HTTP 500 with the configuration message when its input
\* is well formed, and in the framework's HTTP 422 when it is not.
C2_NoBucket ==
    \A r \in DOMAIN pc :
        (Started(r) /\ ~BucketConfigured) =>
            /\ Finished(r)
            /\ calls[r] = <<>>
            /\ WellFormed(r) =>
                   Status(r) = 500 /\ Body(r) = [detail |-> "S3_BUCKET not configured"]
            /\ ~WellFormed(r) => Status(r) = 422

C2_Witness ==
    /\ BUCKET = Some("")
    /\ \E r \in DOMAIN pc :
        /\ IsGenerate(r) /\ Finished(r) /\ WellFormed(r)
        /\ Status(r) = 500 /\ calls[r] = <<>>

\* C3: a GET /generate whose temperature is outside [0.0, 1.0] makes no downstream
\* call and returns no story.
C3_TemperatureRejected ==
    \A r \in DOMAIN pc :
        (/\ IsGenerate(r)
         /\ Input(r).temperature # None
         /\ Val(Input(r).temperature) \notin 0..10) =>
            /\ Finished(r)
            /\ calls[r] = <<>>
            /\ Status(r) # 200
            /\ ~HasStory(r)

C3_Witness ==
    /\ BucketConfigured
    /\ \E r \in DOMAIN pc :
        /\ IsGenerate(r) /\ Finished(r)
        /\ Input(r).key # None
        /\ Input(r).temperature = Some(11)
        /\ calls[r] = <<>>

\* C4: when the generation service returns a content list, the response is
\* {"story": s} with s the texts of the text-typed segments, in order, joined;
\* segments of other types add nothing and no text segment gives "".
C4_StoryIsTextConcatenation ==
    \A r \in DOMAIN pc :
        (/\ IsGenerate(r)
         /\ Len(calls[r]) = 2
         /\ calls[r][2].outcome.kind = "return"
         /\ calls[r][2].outcome.value.content # None) =>
            LET content == Val(calls[r][2].outcome.value.content)
            IN /\ Finished(r)
               /\ Status(r) = 200
               /\ DOMAIN Body(r) = {"story"}
               /\ Body(r).story = Concat(TextsOf(SelectSeq(content, IsText)))
               /\ (\A i \in 1..Len(content) : ~IsText(content[i])) => Body(r).story = ""

C4_Witness ==
    \E r \in DOMAIN pc :
        /\ IsGenerate(r) /\ Finished(r) /\ Len(calls[r]) = 2
        /\ calls[r][2].outcome.kind = "return"
        /\ calls[r][2].outcome.value.content =
               Some(<<[type |-> "tool_use", text |-> " a time."],
                      [type |-> "text", text |-> "Once upon"]>>)
        /\ Body(r).story = "Once upon"

\* C5: when the generation-service call raises, the request ends in HTTP 500, the
\* message contains the error's text and the response has no story field.
C5_GenerationErrorSurfaced ==
    \A r \in DOMAIN pc :
        (/\ IsGenerate(r)
         /\ Len(calls[r]) = 2
         /\ calls[r][2].outcome.kind = "raise") =>
            /\ Finished(r)
            /\ Status(r) = 500
            /\ DOMAIN Body(r) = {"detail"}
            /\ Contains(Body(r).detail, calls[r][2].outcome.error)
            /\ ~HasStory(r)

C5_Witness ==
    \E r \in DOMAIN pc :
        /\ IsGenerate(r) /\ Finished(r) /\ Len(calls[r]) = 2
        /\ calls[r][2].outcome = [kind |-> "raise", error |-> "rate_limit_error"]
        /\ Status(r) = 500

\* C6: a GET /generate that reaches the storage service asks it first, for a
\* get_object URL of exactly the caller's key with 300 seconds, and the
\* generation-service call that follows carries exactly the URL returned.
C6_GetUrlScopedAndForwarded ==
    \A r \in DOMAIN pc :
        (IsGenerate(r) /\ calls[r] # <<>>) =>
            /\ calls[r][1].svc = "s3"
            /\ calls[r][1].op = "get_object"
            /\ calls[r][1].params = [Bucket |-> Val(BUCKET), Key |-> Val(Input(r).key)]
            /\ calls[r][1].ExpiresIn = 300
            /\ \A i \in CallsTo(r, "anthropic") :
                   /\ i = 2
                   /\ calls[r][1].outcome.kind = "return"
                   /\ calls[r][i].image_url = calls[r][1].outcome.value

C6_Witness ==
    \E r \in DOMAIN pc :
        /\ IsGenerate(r) /\ Len(calls[r]) = 2
        /\ Input(r).key = Some("elsewhere/c.gif")
        /\ calls[r][1].outcome = [kind |-> "return", value |-> "https://s3/two?sig=2"]
        /\ calls[r][2].image_url = "https://s3/two?sig=2"

\* C7 as stated: every request ends with status 200 or 500, malformed input included.
C7_AsStated ==
    \A r \in DOMAIN pc : Finished(r) => Status(r) \in {200, 500}

\* C7, amended: every request ends with status 200, 422 or 500; 422 is the answer
\* to exactly the requests whose input is malformed (a required field missing, a
\* temperature out of range), so a well-formed request ends with 200 or 500.
C7_StatusCodes ==
    \A r \in DOMAIN pc :
        Finished(r) =>
            /\ Status(r) \in {200, 422, 500}
            /\ Status(r) = 422 <=> ~WellFormed(r)

C7_Witness ==
    \E r \in DOMAIN pc :
        /\ IsUpload(r) /\ Finished(r)
        /\ Input(r).filename = None
        /\ Status(r) = 422

\* C8 as stated: an exception raised by the storage service is reported as a server
\* fault that includes the error's text.
C8_AsStated ==
    \A r \in DOMAIN pc :
        (/\ Started(r)
         /\ calls[r] # <<>>
         /\ calls[r][1].outcome.kind = "raise") =>
            /\ Finished(r)
            /\ Status(r) = 500
            /\ \E f \in DOMAIN Body(r) : Contains(Body(r)[f], calls[r][1].outcome.error)

\* C8, amended: an exception raised by the storage service is not caught by the
\* handler; the request ends in the framework's HTTP 500 "Internal Server Error",
\* which does not include the error's text, and no generation-service call is made.
C8_StorageErrorUnhandled ==
    \A r \in DOMAIN pc :
        (/\ Started(r)
         /\ calls[r] # <<>>
         /\ calls[r][1].outcome.kind = "raise") =>
            /\ Finished(r)
            /\ Len(calls[r]) = 1
            /\ Status(r) = 500
            /\ Body(r) = [text |-> "Internal Server Error"]
            /\ ~Contains(Body(r).text, calls[r][1].outcome.error)

C8_Witness ==
    \E r \in DOMAIN pc :
        /\ IsGenerate(r) /\ Finished(r) /\ Len(calls[r]) = 1
        /\ calls[r][1].outcome = [kind |-> "raise", error |-> "Unable to locate credentials"]
        /\ Status(r) = 500

\* C9: no error is retried or recovered.  A request makes at most one call to the
\* storage service and at most one to the generation service (an upload none to
\* the latter), makes no call after one that raised, keeps the one response it
\* gave, and, every downstream call returning or raising, ends in a response
\* that is a full result or a failure.
C9_CallsAtMostOnce ==
    \A r \in DOMAIN pc :
        /\ Cardinality(CallsTo(r, "s3")) <= 1
        /\ Cardinality(CallsTo(r, "anthropic")) <= 1
        /\ IsUpload(r) => CallsTo(r, "anthropic") = {}
        /\ \A i \in 1..Len(calls[r]) :
               calls[r][i].outcome.kind = "raise" => i = Len(calls[r]) /\ Finished(r)
        /\ Finished(r) <=> response[r] # None
        /\ Finished(r) =>
               /\ \A i \in 1..Len(calls[r]) : calls[r][i].outcome.kind # "pending"
               /\ \/ Status(r) = 200 /\ IsUpload(r) /\ DOMAIN Body(r) = {"put_url", "key"}
                  \/ Status(r) = 200 /\ IsGenerate(r) /\ DOMAIN Body(r) = {"story"}
                  \/ Status(r) # 200 /\ DOMAIN Body(r) \in {{"detail"}, {"text"}}

C9_ResponseIsFinal ==
    \A r \in DOMAIN pc :
        response[r] # None => response'[r] = response[r] /\ calls'[r] = calls[r]

C9_NoRetryAndTermination ==
    /\ []C9_CallsAtMostOnce
    /\ [][C9_ResponseIsFinal]_vars
    /\ \A r \in ReqsPar : (pc[r] \in {"s3", "gen"}) ~> (Finished(r) /\ response[r] # None)

C9_Witness ==
    \E r \in DOMAIN pc :
        /\ IsGenerate(r) /\ Finished(r)
        /\ Len(calls[r]) = 2
        /\ calls[r][2].outcome.kind = "raise"
        /\ Status(r) = 500

\* C10: requests are independent.  No step changes the configuration; a step of
\* one request leaves every other request as it was; and what a request sends
\* downstream and answers is fixed by its own input, the configuration and the
\* answers to its own calls.
C10_ConfigFixed == BUCKET' = BUCKET /\ MODEL' = MODEL /\ MAX_TOKENS' = MAX_TOKENS

C10_OthersUntouched ==
    \A r \in DOMAIN pc :
        pc'[r] # pc[r] =>
            \A o \in DOMAIN pc \ {r} :
                /\ pc'[o] = pc[o]
                /\ request'[o] = request[o]
                /\ key'[o] = key[o]
                /\ calls'[o] = calls[o]
                /\ response'[o] = response[o]

C10_OwnInputOnly ==
    \A r \in DOMAIN pc :
        /\ (IsUpload(r) /\ calls[r] # <<>>) =>
               /\ calls[r][1].params =
                      [Bucket |-> Val(BUCKET),
                       Key |-> "uploads/" \o Val(Input(r).filename),
                       ContentType |-> Val(Input(r).content_type)]
               /\ (Finished(r) /\ calls[r][1].outcome.kind = "return") =>
                      Body(r) = [put_url |-> calls[r][1].outcome.value,
                                 key |-> "uploads/" \o Val(Input(r).filename)]
        /\ (IsGenerate(r) /\ calls[r] # <<>>) =>
               /\ calls[r][1].params = [Bucket |-> Val(BUCKET), Key |-> Val(Input(r).key)]
               /\ Len(calls[r]) = 2 =>
                      /\ calls[r][2].image_url = calls[r][1].outcome.value
                      /\ calls[r][2].model = MODEL
                      /\ calls[r][2].max_tokens = MAX_TOKENS
                      /\ calls[r][2].temperature =
                             (IF Input(r).temperature = None THEN 8
                              ELSE Val(Input(r).temperature))
                      /\ (Finished(r) /\ calls[r][2].outcome.kind = "raise") =>
                             Contains(Body(r).detail, calls[r][2].outcome.error)
                      /\ (/\ Finished(r)
                          /\ calls[r][2].outcome.kind = "return"
                          /\ calls[r][2].outcome.value.content # None) =>
                             Body(r).story =
                                 Concat(TextsOf(SelectSeq(
                                     Val(calls[r][2].outcome.value.content), IsText)))

C10_RequestsIndependent ==
    /\ [][C10_ConfigFixed /\ C10_OthersUntouched]_vars
    /\ []C10_OwnInputOnly

C10_Witness ==
    /\ \A r \in ReqsPar : Finished(r) /\ Status(r) = 200
    /\ IsUpload(1) /\ IsGenerate(2)
    /\ Input(2).key = Some("elsewhere/c.gif")
    /\ Body(1).key = "uploads/a.png"
    /\ calls[1][1].outcome.value # calls[2][1].outcome.value

====
